---- MODULE Spec2Model ----
(***************************************************************************)
(* btoa: binary file to assembly code converter (src/main.c).              *)
(*                                                                         *)
(* The model follows main() and convert() statement by statement.  Every   *)
(* stdio call that can fail (fopen, fread, fprintf) is one step, and its   *)
(* outcome is chosen nondeterministically.  Text written to the data       *)
(* stream and to stderr is kept as strings, character for character.       *)
(***************************************************************************)
EXTENDS Integers, Sequences, FiniteSets, TLC

(* ---------------------------------------------------------------- bounds *)

\* Longest input file of the model, in bytes (three output lines at 17).
MaxLen == 17

(* ------------------------------------------------------ program constants *)

PROG_FILENAME_IDX == 0
ARCH_NAME_IDX == 1
IN_FILENAME_IDX == 2
OUT_FILENAME_IDX == 3
ELEMS_PER_LINE == 8

\* C arrays are indexed from 0, TLA+ sequences from 1.
Arg(v, idx) == v[idx + 1]

\* struct lang_spec lang_specs[]; the {NULL} sentinel is the end of the sequence.
lang_specs ==
  << [name |-> "nasm", def |-> "db",    diff |-> "dd $-",    glob_pre |-> "[GLOBAL ", glob_post |-> "]"],
     [name |-> "fasm", def |-> "db",    diff |-> "dd $-",    glob_pre |-> "global ",  glob_post |-> ""],
     [name |-> "as",   def |-> ".byte", diff |-> ".long .-", glob_pre |-> ".globl ",  glob_post |-> ""] >>

\* The NULL pointer of struct lang_spec *: no index of lang_specs.
NoLang == 0

(* ---------------------------------------------------------- pure helpers *)

RECURSIVE LookupFrom(_, _)
LookupFrom(i, name) ==
  IF i > Len(lang_specs) THEN NoLang
  ELSE IF lang_specs[i].name = name THEN i
  ELSE LookupFrom(i + 1, name)

\* A lookup that falls back to the first table entry instead of NULL.
lookup_lang_spec_default(name) ==
  IF LookupFrom(1, name) = NoLang THEN 1 ELSE LookupFrom(1, name)

\* lookup_lang_spec(): first entry whose name strcmp-equals name, else NULL.
lookup_lang_spec(name) == LookupFrom(1, name)

RECURSIVE ListLangs(_)
ListLangs(i) ==
  IF i > Len(lang_specs) THEN ""
  ELSE " " \o lang_specs[i].name \o ListLangs(i + 1)

\* print_langs(): what it writes to stderr.
print_langs == ListLangs(1) \o "\n"

\* usage(): what it writes to stderr.
usage(progname) ==
  "Format: " \o progname \o " <lang> <binary file name> [<assembly file name>]\n"
  \o "<lang> can be one of:" \o print_langs \o "\n"

\* panic(): the message written to stderr before exit(1).
panic(msg) == "Error: " \o msg \o "\n"

RECURSIVE ReplFrom(_, _, _, _)
ReplFrom(str, i, old, new) ==
  IF i > Len(str) THEN ""
  ELSE (IF SubSeq(str, i, i) = old THEN new ELSE SubSeq(str, i, i))
       \o ReplFrom(str, i + 1, old, new)

\* str_repl_char(): the string after the in-place replacement.
str_repl_char(str, old, new) == ReplFrom(str, 1, old, new)

HexDigits == "0123456789abcdef"

RECURSIVE HexWith(_, _)
HexWith(digits, n) ==
  IF n < 16 THEN SubSeq(digits, n + 1, n + 1)
  ELSE HexWith(digits, n \div 16) \o SubSeq(digits, (n % 16) + 1, (n % 16) + 1)

\* "0x%02x": zero-padded to two digits.
FmtBytePadded(b) == "0x" \o (IF b < 16 THEN "0" ELSE "") \o HexWith(HexDigits, b)

\* fprintf(out, "0x%x", byte): printf's %x conversion of an unsigned char.
FmtByte(b) == "0x" \o HexWith(HexDigits, b)

RECURSIVE Dec(_)
\* printf's %lu conversion.
Dec(n) ==
  IF n < 10 THEN SubSeq(HexDigits, n + 1, n + 1)
  ELSE Dec(n \div 10) \o SubSeq(HexDigits, (n % 10) + 1, (n % 10) + 1)

\* "%s%s_file%s\n"
FmtExport(l, id) == l.glob_pre \o id \o "_file" \o l.glob_post \o "\n"

\* "%s_file:\n"
FmtLabel(id) == id \o "_file:\n"

\* The line break taken one byte early.
NewLineNeededOffByOne(cnt) == ((cnt + 1) % ELEMS_PER_LINE) = 0

\* The negation of `*count && (*count % ELEMS_PER_LINE)`.
NewLineNeeded(cnt) == ~(cnt # 0 /\ (cnt % ELEMS_PER_LINE) # 0)

\* ",\t" inside a line, "\n%s\t" at the start of one.
FmtSep(l, cnt) == IF NewLineNeeded(cnt) THEN "\n" \o l.def \o "\t" ELSE ",\t"

\* "\n\n%s%s_file_size%s\n"
FmtSizeExport(l, id) ==
  "\n\n" \o l.glob_pre \o id \o "_file_size" \o l.glob_post \o "\n"

\* The size label written with the byte directive instead of the diff template.
FmtSizeLabelDef(l, id) == id \o "_file_size: " \o l.def \o id \o "_file\n"

\* "%s_file_size: %s%s_file\n"
FmtSizeLabel(l, id) == id \o "_file_size: " \o l.diff \o id \o "_file\n"

\* A failed write that is not noticed.
AfterWriteIgnoring(r, next) == next

\* `if (ret < 0) goto out_err;`
AfterWrite(r, next) == IF r < 0 THEN "out_err" ELSE next

\* A read error treated like end of file.
AfterReadBreaking(rw, eof, err) == IF rw = 0 THEN "ftr_export" ELSE "sep"

\* `if (!rwcount) { if (feof(in)) break; if (ferror(in)) goto in_err; }`
AfterRead(rw, eof, err) ==
  IF rw = 0 /\ eof THEN "ftr_export"
  ELSE IF rw = 0 /\ err THEN "in_err"
  ELSE "sep"

\* The counter advanced once more than the bytes converted.
CountNextTwice(cnt) == cnt + 2

\* `(*count)++`
CountNext(cnt) == cnt + 1

(* ---------------------------------------------------------------- inputs *)

\* The bytes s, s+1, ... (mod 256), n of them.
Ramp(s, n) == [i \in 1..n |-> (s + i - 1) % 256]

\* Input files: every length up to MaxLen, and ramps that between them hold
\* every byte value.
Files ==
  {Ramp(0, n) : n \in 0..MaxLen}
  \cup {Ramp(16 * k, 2 * ELEMS_PER_LINE) : k \in 0..15}

LangArgs == {"nasm", "fasm", "as", "NASM", "a"}
InArgs == {"login-screen.bmp", "dir/a-b.c", "x"}

\* Command lines with 1 to 4 positional arguments (argc 2 to 5).
CmdLines ==
  {<<"btoa", l>> : l \in LangArgs}
  \cup {<<"btoa", l, i>> : l \in LangArgs, i \in InArgs}
  \cup {<<"btoa", l, i, "out.asm">> : l \in LangArgs, i \in InArgs}
  \cup {<<"btoa", l, i, "out.asm", "extra">> : l \in {"nasm"}, i \in {"x"}}

(* ----------------------------------------------------------------- state *)

VARIABLES
  cmdline,    \* the command line the process was started with (never changes)
  data,       \* the bytes of the input file on disk (never changes)
  argc,       \* main's argc
  argv,       \* main's argv, which str_repl_char() overwrites in place
  pc,         \* the statement the program is at
  lang,       \* struct lang_spec *lang: an index of lang_specs, or NoLang
  in,         \* FILE *in: "NULL" or the handle "IN"
  out,        \* FILE *out: "stdout", "NULL" or the handle "OUT"
  open,       \* the handles fopen() returned that were not fclose()d yet
  fcloses,    \* the arguments of the fclose() calls made, in order
  inName,     \* the path given to fopen() for the input, "" before
  created,    \* whether fopen(.., "w") created or truncated the output file
  pos,        \* the input stream's position: bytes read successfully
  in_eof,     \* feof(in)
  in_err,     \* ferror(in)
  byte,       \* convert's `byte`
  rwcount,    \* convert's `rwcount`
  count,      \* main's `count`, written through convert's `count` pointer
  ret,        \* `ret`: the last fprintf's result inside convert(), then its return value
  text,       \* everything written to the data stream
  errtext,    \* everything written to stderr
  status      \* "running", "exit0", "exit1" or "crash"

vars == <<cmdline, data, argc, argv, pc, lang, in, out, open, fcloses, inName,
          created, pos, in_eof, in_err, byte, rwcount, count, ret, text,
          errtext, status>>

env == <<cmdline, data>>
files == <<in, out, open, fcloses, inName, created>>
stream == <<pos, in_eof, in_err, byte, rwcount>>

\* main()'s locals at entry: in = NULL, out = stdout; the rest is not yet
\* assigned and is given a fixed value that no step reads before writing.
Init ==
  /\ cmdline \in CmdLines
  /\ data \in Files
  /\ argc = Len(cmdline)
  /\ argv = cmdline
  /\ pc = "args"
  /\ lang = NoLang
  /\ in = "NULL"
  /\ out = "stdout"
  /\ open = {}
  /\ fcloses = <<>>
  /\ inName = ""
  /\ created = FALSE
  /\ pos = 0
  /\ in_eof = FALSE
  /\ in_err = FALSE
  /\ byte = 0
  /\ rwcount = 0
  /\ count = 0
  /\ ret = 0
  /\ text = ""
  /\ errtext = ""
  /\ status = "running"

\* panic(msg): write the message, exit(1).
Panic(msg) ==
  /\ errtext' = errtext \o panic(msg)
  /\ status' = "exit1"
  /\ pc' = "exit"

\* cleanup(in, out) with a non-NULL `out`: close `out` unless it is stdout,
\* then `in` unless it is NULL.
Cleanup ==
  /\ fcloses' = fcloses \o (IF out # "stdout" THEN <<out>> ELSE <<>>)
                        \o (IF in # "NULL" THEN <<in>> ELSE <<>>)
  /\ open' = (open \ (IF out # "stdout" THEN {out} ELSE {}))
                   \ (IF in # "NULL" THEN {in} ELSE {})

\* main(), lines 223-231: the banner, then the argument count.
CheckArgs ==
  /\ pc = "args"
  /\ IF argc < 3 \/ argc > 4
       THEN /\ errtext' = "Binary file to assembly language converter.\n\n"
                          \o usage(Arg(argv, PROG_FILENAME_IDX))
                          \o panic("At least two parameters are necessary.")
            /\ status' = "exit1"
            /\ pc' = "exit"
       ELSE /\ errtext' = "Binary file to assembly language converter.\n\n"
            /\ pc' = "lookup"
            /\ UNCHANGED status
  /\ UNCHANGED <<env, argc, argv, lang, files, stream, count, ret, text>>

\* main(), lines 233-235.
Lookup ==
  /\ pc = "lookup"
  /\ lang' = lookup_lang_spec(Arg(argv, ARCH_NAME_IDX))
  /\ IF lang' = NoLang
       THEN Panic("Non-supported assembly syntax.")
       ELSE pc' = "open_in" /\ UNCHANGED <<errtext, status>>
  /\ UNCHANGED <<env, argc, argv, files, stream, count, ret, text>>

\* main(), lines 237-239: fopen(argv[IN_FILENAME_IDX], "r") succeeds or not.
OpenIn ==
  /\ pc = "open_in"
  /\ inName' = Arg(argv, IN_FILENAME_IDX)
  /\ \E ok \in BOOLEAN :
       IF ok
         THEN /\ in' = "IN"
              /\ open' = open \cup {"IN"}
              /\ pc' = "open_out"
              /\ UNCHANGED <<errtext, status>>
         ELSE /\ in' = "NULL"
              /\ Panic("Unable to open the input file.")
              /\ UNCHANGED open
  /\ UNCHANGED <<env, argc, argv, lang, out, fcloses, created, stream, count,
                 ret, text>>

\* main(), lines 241-247.  When fopen(.., "w") fails, cleanup(in, NULL) calls
\* fclose(NULL), which is undefined: the process either crashes there, before
\* `in` is closed, or the call returns and cleanup goes on.
OpenOut ==
  /\ pc = "open_out"
  /\ IF 4 = argc
       THEN \E ok \in BOOLEAN :
              IF ok
                THEN /\ out' = "OUT"
                     /\ open' = open \cup {"OUT"}
                     /\ created' = TRUE
                     /\ pc' = "sanitize"
                     /\ UNCHANGED <<fcloses, errtext, status>>
                ELSE /\ out' = "NULL"
                     /\ UNCHANGED created
                     /\ \E crash \in BOOLEAN :
                          IF crash
                            THEN /\ fcloses' = fcloses \o <<"NULL">>
                                 /\ status' = "crash"
                                 /\ pc' = "exit"
                                 /\ UNCHANGED <<open, errtext>>
                            ELSE /\ fcloses' = fcloses \o <<"NULL", in>>
                                 /\ open' = open \ {in}
                                 /\ Panic("Unable to create a new file.")
       ELSE /\ pc' = "sanitize"
            /\ UNCHANGED <<out, open, created, fcloses, errtext, status>>
  /\ UNCHANGED <<env, argc, argv, lang, in, inName, stream, count, ret, text>>

\* main(), lines 249-250.
Sanitize ==
  /\ pc = "sanitize"
  /\ argv' = [argv EXCEPT ![IN_FILENAME_IDX + 1] =
                str_repl_char(str_repl_char(@, ".", "_"), "-", "_")]
  /\ pc' = "hdr_export"
  /\ UNCHANGED <<env, argc, lang, files, stream, count, ret, text, errtext,
                 status>>

\* fprintf(out, ...): the string is written and its length returned, or the
\* write fails with a negative result.
Fprintf(s, next) ==
  \E ok \in BOOLEAN :
    /\ ret' = IF ok THEN Len(s) ELSE -1
    /\ text' = IF ok THEN text \o s ELSE text
    /\ pc' = AfterWrite(ret', next)

\* convert(), lines 152-157: the counter is reset, the data export is written.
WriteExport ==
  /\ pc = "hdr_export"
  /\ count' = 0
  /\ Fprintf(FmtExport(lang_specs[lang], Arg(argv, IN_FILENAME_IDX)), "hdr_label")
  /\ UNCHANGED <<env, argc, argv, lang, files, stream, errtext, status>>

\* convert(), lines 159-161.
WriteLabel ==
  /\ pc = "hdr_label"
  /\ Fprintf(FmtLabel(Arg(argv, IN_FILENAME_IDX)), "fread")
  /\ UNCHANGED <<env, argc, argv, lang, files, stream, count, errtext, status>>

\* convert(), lines 166-172: fread() of one byte delivers the next byte, meets
\* the end of the file, or fails.
Fread ==
  /\ pc = "fread"
  /\ \/ /\ pos < Len(data)
        /\ byte' = data[pos + 1]
        /\ pos' = pos + 1
        /\ rwcount' = 1
        /\ UNCHANGED <<in_eof, in_err>>
     \/ /\ pos = Len(data)
        /\ in_eof' = TRUE
        /\ rwcount' = 0
        /\ UNCHANGED <<byte, pos, in_err>>
     \/ /\ in_err' = TRUE
        /\ rwcount' = 0
        /\ UNCHANGED <<byte, pos, in_eof>>
  /\ pc' = AfterRead(rwcount', in_eof', in_err')
  /\ UNCHANGED <<env, argc, argv, lang, files, count, ret, text, errtext,
                 status>>

\* convert(), lines 174-180.
WriteSep ==
  /\ pc = "sep"
  /\ Fprintf(FmtSep(lang_specs[lang], count), "lit")
  /\ UNCHANGED <<env, argc, argv, lang, files, stream, count, errtext, status>>

\* convert(), lines 182-186.
WriteLit ==
  /\ pc = "lit"
  /\ Fprintf(FmtByte(byte), "fread")
  /\ count' = IF ret' < 0 THEN count ELSE CountNext(count)
  /\ UNCHANGED <<env, argc, argv, lang, files, stream, errtext, status>>

\* convert(), lines 189-192.
WriteSizeExport ==
  /\ pc = "ftr_export"
  /\ Fprintf(FmtSizeExport(lang_specs[lang], Arg(argv, IN_FILENAME_IDX)), "ftr_label")
  /\ UNCHANGED <<env, argc, argv, lang, files, stream, count, errtext, status>>

\* convert(), lines 194-197.
WriteSizeLabel ==
  /\ pc = "ftr_label"
  /\ Fprintf(FmtSizeLabel(lang_specs[lang], Arg(argv, IN_FILENAME_IDX)), "return")
  /\ UNCHANGED <<env, argc, argv, lang, files, stream, count, errtext, status>>

\* convert(), lines 199-203: the three return statements.
Return ==
  /\ pc \in {"return", "in_err", "out_err"}
  /\ ret' = CASE pc = "return" -> 0
              [] pc = "in_err" -> -1
              [] pc = "out_err" -> -2
  /\ pc' = "switch"
  /\ UNCHANGED <<env, argc, argv, lang, files, stream, count, text, errtext,
                 status>>

\* main(), lines 253-267: the switch on convert()'s result, the report, the
\* final cleanup.
Switch ==
  /\ pc = "switch"
  /\ Cleanup
  /\ CASE ret = -1 -> Panic("Unable to read the input file.")
       [] ret = -2 -> Panic("Unable to write the output file. "
                            \o "WARNING: Output data is inconsistent!")
       [] OTHER -> /\ errtext' = errtext \o Dec(count)
                                 \o " bytes have been converted.\n"
                   /\ status' = "exit0"
                   /\ pc' = "exit"
  /\ UNCHANGED <<env, argc, argv, lang, in, out, inName, created, stream,
                 count, ret, text>>

Next ==
  \/ CheckArgs
  \/ Lookup
  \/ OpenIn
  \/ OpenOut
  \/ Sanitize
  \/ WriteExport
  \/ WriteLabel
  \/ Fread
  \/ WriteSep
  \/ WriteLit
  \/ WriteSizeExport
  \/ WriteSizeLabel
  \/ Return
  \/ Switch

Spec == Init /\ [][Next]_vars

(* ------------------------------------------------- reading the text back *)

\* Where sep occurs in s (the separators used here cannot overlap).
Cuts(s, sep) == {i \in 1..(Len(s) - Len(sep) + 1) : SubSeq(s, i, i + Len(sep) - 1) = sep}

\* The j-th smallest element of a set of numbers.
Nth(P, j) == CHOOSE p \in P : Cardinality({q \in P : q < p}) = j - 1

\* The pieces of s between the occurrences of sep.
Split(s, sep) ==
  LET P == Cuts(s, sep)
      n == Cardinality(P)
  IN [j \in 1..(n + 1) |->
        SubSeq(s, IF j = 1 THEN 1 ELSE Nth(P, j - 1) + Len(sep),
                  IF j = n + 1 THEN Len(s) ELSE Nth(P, j) - 1)]

\* The lines of a text: its newline-terminated pieces, and the unterminated
\* remainder when there is one.
Lines(s) ==
  LET p == Split(s, "\n")
  IN IF p[Len(p)] = "" THEN SubSeq(p, 1, Len(p) - 1) ELSE p

StartsWith(s, pre) == Len(s) >= Len(pre) /\ SubSeq(s, 1, Len(pre)) = pre
EndsWith(s, suf) == Len(s) >= Len(suf) /\ SubSeq(s, Len(s) - Len(suf) + 1, Len(s)) = suf
NonBlank(ls) == SelectSeq(ls, LAMBDA x : x # "")

RECURSIVE Flatten(_)
Flatten(ss) == IF ss = <<>> THEN <<>> ELSE Head(ss) \o Flatten(Tail(ss))

\* convert() has returned 0; it has returned the failure status r (-1 or -2).
ConvertOK == (pc = "switch" /\ ret = 0) \/ status = "exit0"
Failed(r) == pc \in {"switch", "exit"} /\ ret = r

\* The dialect table as the specification gives it.
SpecTable(name) ==
  CASE name = "nasm" -> [def |-> "db", diff |-> "dd $-", pre |-> "[GLOBAL ", post |-> "]"]
    [] name = "fasm" -> [def |-> "db", diff |-> "dd $-", pre |-> "global ", post |-> ""]
    [] name = "as" -> [def |-> ".byte", diff |-> ".long .-", pre |-> ".globl ", post |-> ""]

Dialect == SpecTable(Arg(cmdline, ARCH_NAME_IDX))
Ident == Arg(argv, IN_FILENAME_IDX)

\* The literal of a byte as the specification gives it: one lowercase digit
\* for 0..15, two for 16..255.
Digit(d) == CASE d = 0 -> "0" [] d = 1 -> "1" [] d = 2 -> "2" [] d = 3 -> "3"
              [] d = 4 -> "4" [] d = 5 -> "5" [] d = 6 -> "6" [] d = 7 -> "7"
              [] d = 8 -> "8" [] d = 9 -> "9" [] d = 10 -> "a" [] d = 11 -> "b"
              [] d = 12 -> "c" [] d = 13 -> "d" [] d = 14 -> "e" [] d = 15 -> "f"
Literal(b) == "0x" \o (IF b <= 15 THEN Digit(b) ELSE Digit(b \div 16) \o Digit(b % 16))

\* The size export line, as the specification gives it.
SpecSizeExport == Dialect.pre \o Ident \o "_file_size" \o Dialect.post

\* The non-blank lines written after the data label line and before the size
\* export line (to the end of the text when that line is not written).
ByteLines ==
  LET L == Lines(text)
      E == {i \in 3..Len(L) : L[i] = SpecSizeExport}
      last == IF E = {} THEN Len(L) ELSE (CHOOSE i \in E : \A j \in E : i <= j) - 1
  IN NonBlank(SubSeq(L, 3, last))

\* The comma+tab separated fields of a byte line, its directive taken off.
Fields(line) ==
  Split(SubSeq(line, Len(Dialect.def) + 2, Len(line)), ",\t")

\* Byte line k of an n-byte input, as the specification gives it.
RECURSIVE JoinLits(_, _, _)
JoinLits(bytes, i, j) ==
  IF i > j THEN "" ELSE
  Literal(bytes[i]) \o (IF i < j THEN ",\t" ELSE "") \o JoinLits(bytes, i + 1, j)

\* The literals in the text, in order.
Literals == NonBlank(Flatten([k \in 1..Len(ByteLines) |-> Fields(ByteLines[k])]))

Min(a, b) == IF a < b THEN a ELSE b
SpecByteLines(bytes) ==
  [k \in 1..((Len(bytes) + 7) \div 8) |->
     Dialect.def \o "\t" \o JoinLits(bytes, 8 * (k - 1) + 1, Min(8 * k, Len(bytes)))]

(* ------------------------------------------------------------------ C1 *)

\* C1: after a successful convert() of n bytes, the non-blank lines between
\* the data label line and the size export are ceil(n / 8) lines that each
\* start with the byte directive and a tab; each but the last holds exactly 8
\* fields separated by comma+tab, the last holds n - 8 * (lines - 1), each
\* field is a literal, and for n = 0 there is no such line at all.
C1_LineShape ==
  ConvertOK =>
    LET B == ByteLines
        n == Len(data)
    IN /\ Len(B) = (n + 7) \div 8
       /\ \A k \in 1..Len(B) :
            /\ StartsWith(B[k], Dialect.def \o "\t")
            /\ Len(Fields(B[k])) = (IF k < Len(B) THEN 8 ELSE n - 8 * (Len(B) - 1))
            /\ \A f \in 1..Len(Fields(B[k])) : StartsWith(Fields(B[k])[f], "0x")
       /\ (n = 0 => \A i \in 1..Len(Lines(text)) :
                      ~StartsWith(Lines(text)[i], Dialect.def))

\* A 17-byte input was converted: two full lines and a last line of one.
C1_Witness ==
  /\ status = "exit0"
  /\ Len(data) = 17
  /\ Len(ByteLines) = 3
  /\ Len(Fields(ByteLines[3])) = 1

\* An empty input was converted.
C1_WitnessEmpty == status = "exit0" /\ Len(data) = 0 /\ ByteLines = <<>>

(* ------------------------------------------------------------------ C2 *)

SpecExport == Dialect.pre \o Ident \o "_file" \o Dialect.post
SpecLabel == Ident \o "_file:"
SpecSizeLabel == Ident \o "_file_size: " \o Dialect.diff \o Ident \o "_file"

\* C2 as stated: the text is the export line, the label line, the byte
\* lines, one blank line, the size export line and the size label line, and
\* nothing else.
C2_Original ==
  ConvertOK =>
    Lines(text) = <<SpecExport, SpecLabel>> \o SpecByteLines(data)
                  \o <<"", SpecSizeExport, SpecSizeLabel>>

\* C2 amended: as stated, with one more blank line right after the label line
\* (so an empty input gives two blank lines between the label line and the
\* size export line); every line is newline-terminated; the size lines are in
\* the text only once end-of-input was observed; an empty input gives exactly
\* 4 non-blank lines.
C2_Layout ==
  /\ ConvertOK =>
       /\ Lines(text) = <<SpecExport, SpecLabel, "">> \o SpecByteLines(data)
                        \o <<"", SpecSizeExport, SpecSizeLabel>>
       /\ EndsWith(text, "\n")
       /\ (Len(data) = 0 => Len(NonBlank(Lines(text))) = 4)
  /\ (lang # NoLang /\ (EndsWith(text, SpecSizeExport \o "\n")
                        \/ EndsWith(text, SpecSizeLabel \o "\n")))
       => in_eof /\ pos = Len(data)

\* A 10-byte input was converted with dialect as: 0x0..0x7, then 0x8, 0x9.
C2_Witness ==
  /\ status = "exit0"
  /\ Arg(cmdline, ARCH_NAME_IDX) = "as"
  /\ data = Ramp(0, 10)
  /\ Lines(text)[4] = ".byte\t0x0,\t0x1,\t0x2,\t0x3,\t0x4,\t0x5,\t0x6,\t0x7"
  /\ Lines(text)[5] = ".byte\t0x8,\t0x9"
  /\ StartsWith(Lines(text)[8], Ident \o "_file_size: .long .-")

(* ------------------------------------------------------------------ C3 *)

WritePcs == {"hdr_export", "hdr_label", "sep", "lit", "ftr_export", "ftr_label"}
WriteErrorMsg ==
  "Error: Unable to write the output file. WARNING: Output data is inconsistent!\n"

\* C3: a failed write in convert() leads straight to out_err; from there on
\* nothing more is written to the output and nothing more is read from the
\* input; convert() returns -2; main() then ends with the write error message
\* and its warning as the last thing on stderr, with exit status 1.
C3_WriteFailure ==
  /\ [][(pc \in WritePcs /\ ret' < 0) => pc' = "out_err"]_vars
  /\ [][(pc = "out_err" \/ Failed(-2)) => (text' = text /\ pos' = pos)]_vars
  /\ [][pc = "out_err" => (ret' = -2 /\ pc' = "switch")]_vars
  /\ [][(pc = "switch" /\ ret = -2) =>
          (status' = "exit1" /\ EndsWith(errtext', WriteErrorMsg))]_vars
  /\ [](pc = "exit" /\ ret = -2 => status = "exit1")

\* The write of the 10th literal failed, after 9 bytes were written.
C3_Witness ==
  /\ status = "exit1"
  /\ ret = -2
  /\ count = 9
  /\ pos = 10
  /\ EndsWith(text, ",\t")
  /\ EndsWith(errtext, WriteErrorMsg)

(* ------------------------------------------------------------------ C4 *)

\* C4: a failed read leads straight to in_err; from there on nothing more is
\* written or read; convert() returns -1; the text then holds one literal per
\* byte read successfully and neither size line; main() ends with status 1.
C4_ReadFailure ==
  /\ [][(pc = "fread" /\ in_err') => pc' = "in_err"]_vars
  /\ [][(pc = "in_err" \/ Failed(-1)) => (text' = text /\ pos' = pos)]_vars
  /\ [][pc = "in_err" => (ret' = -1 /\ pc' = "switch")]_vars
  /\ [](Failed(-1) =>
          /\ Len(Literals) = pos
          /\ LET L == Lines(text)
             IN /\ \A i \in 1..Len(L) : L[i] # SpecSizeExport /\ L[i] # SpecSizeLabel
                /\ Len(L) = 2 + (IF pos = 0 THEN 0 ELSE 1 + ((pos + 7) \div 8))
          /\ (pc = "exit" => status = "exit1"))

\* The read of the 10th byte failed.
C4_Witness ==
  /\ status = "exit1"
  /\ ret = -1
  /\ in_err
  /\ pos = 9
  /\ EndsWith(text, "0x8")

(* ------------------------------------------------------------------ C5 *)

\* C5 as stated: when the process has terminated, no handle it opened is
\* still open.
C5_AllReleased == status # "running" => open = {}

(* ------------------------------------------------------------------ C6 *)

\* C6 as stated: at every return of convert(), count is the number of
\* successful reads.
C6_Original == pc = "switch" => count = pos

\* C6 amended: at a return with status 0 or -1, count is the number of
\* successful reads; at a return with status -2 it is the number of bytes
\* whose literal was written, which is the number of successful reads, or one
\* less when the failed write belonged to a byte already read.
C6_Count ==
  pc = "switch" =>
    /\ (ret \in {0, -1} => count = pos)
    /\ (ret = -2 => (count = pos \/ count = pos - 1))
    /\ (ret = 0 => count = Len(data))
    /\ count = Len(Literals)

\* convert() returned 0 after reading 17 bytes.
C6_Witness == pc = "switch" /\ ret = 0 /\ count = 17 /\ pos = 17

(* ------------------------------------------------------------------ C7 *)

RECURSIVE LastSlash(_, _)
LastSlash(s, i) ==
  IF i = 0 THEN 0 ELSE IF SubSeq(s, i, i) = "/" THEN i ELSE LastSlash(s, i - 1)

\* The file's base name: what follows the last directory separator.
BaseName(path) == SubSeq(path, LastSlash(path, Len(path)) + 1, Len(path))

RECURSIVE MapChars(_, _)
\* Every `.` and every `-` replaced by `_`, every other character kept.
MapChars(s, i) ==
  IF i > Len(s) THEN ""
  ELSE (IF SubSeq(s, i, i) \in {".", "-"} THEN "_" ELSE SubSeq(s, i, i))
       \o MapChars(s, i + 1)

SpecIdent == MapChars(BaseName(Arg(cmdline, IN_FILENAME_IDX)), 1)

\* C7 as stated: the data label and the size label are built on the input
\* file's base name with `.` and `-` replaced by `_`.
C7_Identifier ==
  ConvertOK =>
    /\ Lines(text)[2] = SpecIdent \o "_file:"
    /\ StartsWith(Lines(text)[Len(Lines(text))], SpecIdent \o "_file_size: ")

(* ------------------------------------------------------------------ C8 *)

\* C8: whenever a literal has been written, the text ends with a tab and
\* `0x` followed by the lowercase hexadecimal digits of the byte just read,
\* one digit for 0..15 and two for 16..255, whatever the dialect and the
\* position in the line.
C8_Literal ==
  (pc = "fread" /\ count > 0) =>
    /\ byte = data[count]
    /\ EndsWith(text, "\t" \o Literal(byte))
    /\ Len(Literal(byte)) = (IF byte <= 15 THEN 3 ELSE 4)

\* 0xff was written as the last literal of a full line.
C8_Witness == pc = "fread" /\ byte = 255 /\ EndsWith(text, ",\t0xff") /\ count % 8 = 0

(* ------------------------------------------------------------------ C9 *)

\* C9 as stated: every fclose() call is given a handle a successful fopen()
\* returned, and none is given the same handle twice.
C9_ClosesOpened ==
  /\ \A i \in 1..Len(fcloses) : fcloses[i] \in {"IN", "OUT"}
  /\ \A i, j \in 1..Len(fcloses) : fcloses[i] = fcloses[j] => i = j

(* ----------------------------------------------------------------- C10 *)

\* C10: the output file is created, or anything is written to the data
\* stream, only when the command line has 2 or 3 positional arguments, its
\* dialect is exactly one of nasm, fasm, as, and the input was opened, under
\* its name as given; and the steps come in the order argument count, lookup,
\* input open, output open, sanitization, conversion.
C10_Order ==
  /\ (created \/ text # "") =>
       /\ Len(cmdline) - 1 \in {2, 3}
       /\ Arg(cmdline, ARCH_NAME_IDX) \in {"nasm", "fasm", "as"}
       /\ in = "IN"
  /\ inName # "" => inName = Arg(cmdline, IN_FILENAME_IDX)
  /\ lang # NoLang => argc \in {3, 4}
  /\ inName # "" => lang # NoLang
  /\ created => in = "IN"
  /\ (argv # cmdline \/ pc = "hdr_export") => (in = "IN" /\ (argc = 4 => created))
  /\ text # "" => Ident = MapChars(Arg(cmdline, IN_FILENAME_IDX), 1)

\* The output file was created and written for a name that needed sanitizing.
C10_Witness ==
  /\ created
  /\ text # ""
  /\ inName = "login-screen.bmp"
  /\ Ident = "login_screen_bmp"

====
